---- MODULE Spec2Model ----
(***************************************************************************)
(* The SDLC workflow of app.py: a Streamlit script that is run from top to *)
(* bottom once per user interaction.  One script run is: session-state     *)
(* initialisation, the sidebar (which assembles the full-workflow export), *)
(* then the main content (completion dialog or the current step).  A call  *)
(* of st.rerun() ends the run and starts one more run with no widget       *)
(* clicked; an action of this model is the run that handles one user       *)
(* interaction together with the rerun it asks for.                        *)
(***************************************************************************)
EXTENDS Integers, Sequences, FiniteSets, TLC

VARIABLES
    current_step,            \* st.session_state.current_step
    approved,                \* st.session_state.approved: step id -> bool
    feedback,                \* st.session_state.feedback: step id -> text
    generated_content,       \* st.session_state.generated_content: step id -> text
    show_completion_prompt,  \* st.session_state.show_completion_prompt
    api_key,                 \* st.session_state.api_key
    project_prompt,          \* st.session_state.project_prompt
    page,                    \* what the last script run rendered in the main area
    event,                   \* the user interaction the last action handled
    runs                     \* what each script run of the last action did

vars == <<current_step, approved, feedback, generated_content,
          show_completion_prompt, api_key, project_prompt, page, event, runs>>

----------------------------------------------------------------------------
(* Bounds of the model and the inputs drawn from small sets.               *)

\* at most this many steps at a time hold feedback or anything but the usual
\* completion text (the result of a failed generation, the alternative text)
MaxTouched == 1

\* texts the user can type into the feedback box ("" is the empty box)
Texts == {"", "f1"}
\* values of the two intake inputs
KeyInputs == {"", "k1"}
PromptInputs == {"", "p1"}
\* what a call of the completion service does: raise, or answer with a text
Outcomes == {"error", "c1", "c2"}

----------------------------------------------------------------------------
(* The registry.                                                           *)

WORKFLOW_STEPS ==
    << "api_input", "user_stories", "design_docs", "code_generation",
       "code_review", "security_review", "test_cases", "qa_testing",
       "deployment", "monitoring" >>

\* PROMPT_TEMPLATES: a template is the sequence of its pieces, the
\* replacement field written "{prompt}"
PROMPT_TEMPLATES ==
    ("user_stories" :>
        << "Generate comprehensive user stories for: ", "{prompt}",
           ". Include acceptance criteria." >>)
    @@ ("design_docs" :>
        << "Create functional and technical design documents for: ", "{prompt}",
           "\n    Functional:\n    - User flows\n    - Feature specs\n    \n    Technical:\n    - Architecture\n    - Tech stack\n    - Data models" >>)
    @@ ("code_generation" :>
        << "Generate production-ready code for: ", "{prompt}",
           ". Include error handling and docs." >>)
    @@ ("test_cases" :>
        << "Create test cases for: ", "{prompt}",
           ". Include positive/negative scenarios." >>)
    @@ ("deployment" :>
        << "Create deployment plan for: ", "{prompt}",
           ". Include rollback strategy." >>)

\* dictionary helpers: d.get(k, default), d[k] = v, k in d
Get(d, k, default) == IF k \in DOMAIN d THEN d[k] ELSE default
Put(d, k, v) == [x \in (DOMAIN d) \cup {k} |-> IF x = k THEN v ELSE d[x]]
EmptyDict == [x \in {} |-> ""]

\* Python truthiness of a string
Truthy(str) == str # ""

----------------------------------------------------------------------------
(* The session state as a value.  `keys` is the set of attributes present  *)
(* in st.session_state; an attribute outside `keys` holds a placeholder.   *)

SessionKeys == {"current_step", "approved", "feedback", "generated_content",
                "show_completion_prompt", "api_key", "project_prompt"}

EmptySession ==
    [keys |-> {}, current_step |-> "", approved |-> EmptyDict,
     feedback |-> EmptyDict, generated_content |-> EmptyDict,
     show_completion_prompt |-> FALSE, api_key |-> "", project_prompt |-> ""]

SetAttr(ss, key, val) == [ss EXCEPT ![key] = val, !.keys = @ \cup {key}]

SetDefault(ss, key, val) == IF key \in ss.keys THEN ss ELSE SetAttr(ss, key, val)

\* lines 8-18, executed at the top of every script run
SessionInit(ss) ==
    LET s1 == SetDefault(ss, "current_step", "api_input")
        s2 == SetDefault(s1, "approved", EmptyDict)
        s3 == SetDefault(s2, "feedback", EmptyDict)
        s4 == SetDefault(s3, "generated_content", EmptyDict)
    IN  SetDefault(s4, "show_completion_prompt", FALSE)

\* st.session_state.clear()
ClearSession(ss) == EmptySession

----------------------------------------------------------------------------
(* User interactions.                                                      *)

\* `step` is the step in the key of the button clicked (approve_<step>,
\* submit_<step>), "" for a widget of another kind
Ev(type, text, k, p) ==
    [type |-> type, step |-> "", text |-> text, api_key |-> k, project_prompt |-> p]
NoEvent == Ev("none", "", "", "")
Click(type, button_step, box_text) ==
    [type |-> type, step |-> button_step, text |-> box_text,
     api_key |-> "", project_prompt |-> ""]

----------------------------------------------------------------------------
(* The functions of app.py.  Each takes the session and returns a record   *)
(* with the new session `ss` and what the call did.                        *)

\* generate_with_groq: the text of the completion, "" when the call raises
generate_with_groq(outcome) == IF outcome = "error" THEN "" ELSE outcome

\* check_workflow_completion with a step that has no entry counted as approved
check_workflow_completion_default_true(ss) ==
    LET counted(id) == id # "api_input" /\ Get(ss.approved, id, TRUE)
        approved_steps == SelectSeq(WORKFLOW_STEPS, counted)
    IN  Len(approved_steps) = Len(WORKFLOW_STEPS) - 1

\* check_workflow_completion
check_workflow_completion(ss) ==
    LET counted(id) == id # "api_input" /\ Get(ss.approved, id, FALSE)
        approved_steps == SelectSeq(WORKFLOW_STEPS, counted)
    IN  Len(approved_steps) = Len(WORKFLOW_STEPS) - 1

\* the entry with the approved flag of a step without one taken as true
StepEntry_default_true(ss, step_id) ==
    [content |-> ss.generated_content[step_id],
     feedback |-> Get(ss.feedback, step_id, ""),
     approved |-> Get(ss.approved, step_id, TRUE)]

\* the entry download_entire_workflow writes for one step
StepEntry(ss, step_id) ==
    [content |-> ss.generated_content[step_id],
     feedback |-> Get(ss.feedback, step_id, ""),
     approved |-> Get(ss.approved, step_id, FALSE)]

\* the loop of download_entire_workflow over WORKFLOW_STEPS[i..]
RECURSIVE BuildSteps(_, _, _)
BuildSteps(ss, i, steps) ==
    IF i > Len(WORKFLOW_STEPS) THEN steps
    ELSE LET step_id == WORKFLOW_STEPS[i]
         IN  IF step_id \in DOMAIN ss.generated_content
             THEN BuildSteps(ss, i + 1, Put(steps, step_id, StepEntry(ss, step_id)))
             ELSE BuildSteps(ss, i + 1, steps)

\* download_entire_workflow without lines 104-106
download_entire_workflow_never_flags(ss) ==
    [steps |-> BuildSteps(ss, 1, EmptyDict), ss |-> ss]

\* download_entire_workflow setting the flag without the check of line 104
download_entire_workflow_always_flags(ss) ==
    [steps |-> BuildSteps(ss, 1, EmptyDict),
     ss |-> SetAttr(ss, "show_completion_prompt", TRUE)]

\* download_entire_workflow: the "steps" mapping of the document and the session
download_entire_workflow(ss) ==
    [steps |-> BuildSteps(ss, 1, EmptyDict),
     ss |-> IF check_workflow_completion(ss)
            THEN SetAttr(ss, "show_completion_prompt", TRUE)
            ELSE ss]

\* line 181: the position (from 1) of the first registry entry with the id
\* of the current step
current_index_of(ss) ==
    CHOOSE i \in 1..Len(WORKFLOW_STEPS) :
        /\ WORKFLOW_STEPS[i] = ss.current_step
        /\ \A j \in 1..(i - 1) : WORKFLOW_STEPS[j] # ss.current_step

\* move_to_next_step with the bound of line 182 one too small
move_to_next_step_stops_early(ss) ==
    IF current_index_of(ss) < Len(WORKFLOW_STEPS) - 1
    THEN [ss |-> SetAttr(ss, "current_step", WORKFLOW_STEPS[current_index_of(ss) + 1]),
          rerun |-> TRUE]
    ELSE [ss |-> ss, rerun |-> FALSE]

\* move_to_next_step
move_to_next_step(ss) ==
    IF current_index_of(ss) < Len(WORKFLOW_STEPS)
    THEN [ss |-> SetAttr(ss, "current_step", WORKFLOW_STEPS[current_index_of(ss) + 1]),
          rerun |-> TRUE]
    ELSE [ss |-> ss, rerun |-> FALSE]

\* render_api_input moving on to the label of the first step, not its id
render_api_input_label(ss, ev) ==
    LET typed == ev.type \in {"edit", "start"}
        s1 == SetAttr(ss, "api_key", IF typed THEN ev.api_key ELSE "")
        s2 == SetAttr(s1, "project_prompt", IF typed THEN ev.project_prompt ELSE "")
    IN  IF ev.type = "start" /\ Truthy(s2.api_key) /\ Truthy(s2.project_prompt)
        THEN [ss |-> SetAttr(s2, "current_step", "User Stories"), rerun |-> TRUE]
        ELSE [ss |-> s2, rerun |-> FALSE]

\* render_api_input without the check of the description (lines 135-136)
render_api_input_key_only(ss, ev) ==
    LET typed == ev.type \in {"edit", "start"}
        s1 == SetAttr(ss, "api_key", IF typed THEN ev.api_key ELSE "")
        s2 == SetAttr(s1, "project_prompt", IF typed THEN ev.project_prompt ELSE "")
    IN  IF ev.type = "start" /\ Truthy(s2.api_key)
        THEN [ss |-> SetAttr(s2, "current_step", "user_stories"), rerun |-> TRUE]
        ELSE [ss |-> s2, rerun |-> FALSE]

\* render_api_input; the two inputs return what the user typed, "" when the
\* widgets are new on the page
render_api_input(ss, ev) ==
    LET typed == ev.type \in {"edit", "start"}
        s1 == SetAttr(ss, "api_key", IF typed THEN ev.api_key ELSE "")
        s2 == SetAttr(s1, "project_prompt", IF typed THEN ev.project_prompt ELSE "")
    IN  IF ev.type = "start" /\ Truthy(s2.api_key) /\ Truthy(s2.project_prompt)
        THEN [ss |-> SetAttr(s2, "current_step", "user_stories"), rerun |-> TRUE]
        ELSE [ss |-> s2, rerun |-> FALSE]

\* str.format(prompt=value): every replacement field gives way to the value
format(template, value) ==
    [i \in 1..Len(template) |-> IF template[i] = "{prompt}" THEN value ELSE template[i]]

\* lines 144-146: the user message, the pieces of the text in order; a step
\* without a template formats the empty string
build_prompt(ss, step_id) ==
    LET prompt == format(Get(PROMPT_TEMPLATES, step_id, << >>), ss.project_prompt)
    IN  IF Truthy(Get(ss.feedback, step_id, ""))
        THEN prompt \o << "\n\nFeedback: ", ss.feedback[step_id] >>
        ELSE prompt

\* the condition of line 143 without its feedback half
needs_generation_absent_only(ss, step_id) ==
    step_id \notin DOMAIN ss.generated_content

\* the condition of line 143
needs_generation(ss, step_id) ==
    \/ step_id \notin DOMAIN ss.generated_content
    \/ Truthy(Get(ss.feedback, step_id, ""))

\* lines 143-149 followed by the removal of the feedback just used
generate_step_clears_feedback(ss, step_id, outcome) ==
    IF needs_generation(ss, step_id)
    THEN [ss |-> SetAttr(SetAttr(ss, "generated_content",
                                 Put(ss.generated_content, step_id,
                                     generate_with_groq(outcome))),
                         "feedback",
                         [id \in (DOMAIN ss.feedback) \ {step_id} |-> ss.feedback[id]]),
          called |-> TRUE]
    ELSE [ss |-> ss, called |-> FALSE]

\* lines 143-149 of render_sdlc_step
generate_step(ss, step_id, outcome) ==
    IF needs_generation(ss, step_id)
    THEN [ss |-> SetAttr(ss, "generated_content",
                         Put(ss.generated_content, step_id, generate_with_groq(outcome))),
          called |-> TRUE]
    ELSE [ss |-> ss, called |-> FALSE]

\* lines 156-158 without the assignment of line 157
approve_clicked_unrecorded(ss, step_id) == move_to_next_step(ss)

\* lines 156-158 of render_sdlc_step
approve_clicked(ss, step_id) ==
    move_to_next_step(SetAttr(ss, "approved", Put(ss.approved, step_id, TRUE)))

\* lines 162-168 with line 165 assigning True
submit_clicked_approves(ss, step_id, text) ==
    IF Truthy(text)
    THEN [ss |-> SetAttr(SetAttr(ss, "feedback", Put(ss.feedback, step_id, text)),
                         "approved", Put(ss.approved, step_id, TRUE)),
          rerun |-> TRUE]
    ELSE [ss |-> ss, rerun |-> FALSE]

\* lines 162-168 of render_sdlc_step
submit_clicked(ss, step_id, text) ==
    IF Truthy(text)
    THEN [ss |-> SetAttr(SetAttr(ss, "feedback", Put(ss.feedback, step_id, text)),
                         "approved", Put(ss.approved, step_id, FALSE)),
          rerun |-> TRUE]
    ELSE [ss |-> ss, rerun |-> FALSE]

\* the controls with buttons that answer to a click on any step's button
render_controls_any_key(g, step_id, ev) ==
    IF ev.type = "approve" THEN approve_clicked(g.ss, step_id)
    ELSE IF ev.type = "submit" THEN submit_clicked(g.ss, step_id, ev.text)
    ELSE [ss |-> g.ss, rerun |-> FALSE]

\* the controls of render_sdlc_step (lines 153-177), after the generation `g`;
\* a button is true in the run of a click on the button with its key
render_controls(g, step_id, ev) ==
    IF ev.type = "approve" /\ ev.step = step_id THEN approve_clicked(g.ss, step_id)
    ELSE IF ev.type = "submit" /\ ev.step = step_id
    THEN submit_clicked(g.ss, step_id, ev.text)
    ELSE [ss |-> g.ss, rerun |-> FALSE]

Rendered(c, view, called) ==
    [ss |-> c.ss, rerun |-> c.rerun, view |-> view, called |-> called]

\* render_sdlc_step
render_sdlc_step(ss, step_id, ev, outcome) ==
    LET Controls(g) == Rendered(render_controls(g, step_id, ev), "sdlc", g.called)
    IN  Controls(generate_step(ss, step_id, outcome))

\* render_step
render_step(ss, step_id, ev, outcome) ==
    IF \A i \in 1..Len(WORKFLOW_STEPS) : WORKFLOW_STEPS[i] # step_id
    THEN [ss |-> ss, rerun |-> FALSE, view |-> "invalid", called |-> FALSE]
    ELSE IF step_id = "api_input"
    THEN Rendered(render_api_input(ss, ev), "api_input", FALSE)
    ELSE render_sdlc_step(ss, step_id, ev, outcome)

\* render_completion_prompt going back to the intake step without line 268
render_completion_prompt_keeps_state(ss, ev) ==
    IF ev.type = "restart"
    THEN [ss |-> SetAttr(SetAttr(ss, "current_step", "api_input"),
                         "show_completion_prompt", FALSE),
          rerun |-> TRUE, view |-> "completion", called |-> FALSE]
    ELSE [ss |-> ss, rerun |-> FALSE, view |-> "completion", called |-> FALSE]

\* render_completion_prompt
render_completion_prompt(ss, ev) ==
    IF ev.type = "restart"
    THEN LET kept == IF "api_key" \in ss.keys THEN ss.api_key ELSE ""
             s1 == SetAttr(ClearSession(ss), "api_key", kept)
         IN  [ss |-> SetAttr(s1, "show_completion_prompt", FALSE),
              rerun |-> TRUE, view |-> "completion", called |-> FALSE]
    ELSE [ss |-> ss, rerun |-> FALSE, view |-> "completion", called |-> FALSE]

\* the sidebar's progress, lines 245-246: sum() of the booleans counts the
\* entries that are True
approved_count(ss) == Cardinality({id \in DOMAIN ss.approved : ss.approved[id]})
total_steps == Len(WORKFLOW_STEPS) - 1

\* the sidebar, lines 250-257: the export is assembled unless on the intake step
Sidebar(ss) ==
    IF ss.current_step # "api_input"
    THEN LET Made(d) == [ss |-> d.ss, exported |-> TRUE, steps |-> d.steps]
         IN  Made(download_entire_workflow(ss))
    ELSE [ss |-> ss, exported |-> FALSE, steps |-> EmptyDict]

\* the main content area rendering the step whatever the flag says
MainContent_ignores_flag(ss, ev, outcome) ==
    render_step(ss, ss.current_step, ev, outcome)

\* the main content area, lines 280-283
MainContent(ss, ev, outcome) ==
    IF ss.show_completion_prompt
    THEN render_completion_prompt(ss, ev)
    ELSE render_step(ss, ss.current_step, ev, outcome)

\* what one run did: the view and step rendered, whether, with what user
\* message and with what outcome the completion service was called, the
\* export assembled in the sidebar
RunRecord(d, m, outcome) ==
    [ss |-> m.ss, rerun |-> m.rerun,
     run |-> [view |-> m.view, step |-> d.ss.current_step,
              called |-> m.called,
              prompt |-> IF m.called THEN build_prompt(d.ss, d.ss.current_step)
                         ELSE << >>,
              outcome |-> IF m.called THEN outcome ELSE "none",
              exported |-> d.exported, steps |-> d.steps]]

\* one run of the script: lines 8-18, the sidebar, the main content
ScriptRun(ss0, ev, outcome) ==
    LET Main(d) == RunRecord(d, MainContent(d.ss, ev, outcome), outcome)
    IN  Main(Sidebar(SessionInit(ss0)))

\* an action: the run that handles `ev` and, when it calls st.rerun(), the
\* run after it
Handled(r1) == [ss |-> r1.ss, runs |-> <<r1.run>>]
HandledRerun(r1, r2) == [ss |-> r2.ss, runs |-> <<r1.run, r2.run>>]

----------------------------------------------------------------------------
(* The state machine.                                                      *)

Session ==
    [keys |-> SessionKeys, current_step |-> current_step, approved |-> approved,
     feedback |-> feedback, generated_content |-> generated_content,
     show_completion_prompt |-> show_completion_prompt,
     api_key |-> api_key, project_prompt |-> project_prompt]

Touched(ss) ==
    (DOMAIN ss.feedback)
        \cup {id \in DOMAIN ss.generated_content : ss.generated_content[id] # "c1"}

WithinBounds(ss) == Cardinality(Touched(ss)) <= MaxTouched

Becomes(h, ev) ==
    /\ WithinBounds(h.ss)
    /\ current_step' = h.ss.current_step
    /\ approved' = h.ss.approved
    /\ feedback' = h.ss.feedback
    /\ generated_content' = h.ss.generated_content
    /\ show_completion_prompt' = h.ss.show_completion_prompt
    /\ api_key' = h.ss.api_key
    /\ project_prompt' = h.ss.project_prompt
    /\ page' = h.runs[Len(h.runs)].view
    /\ event' = ev
    /\ runs' = h.runs

\* the outcome of a call that a run does not make is immaterial: one is taken
Relevant(r, outcome) == r.run.called \/ outcome = "c1"

Do(ev) ==
    \E out1 \in Outcomes :
        \E r1 \in {ScriptRun(Session, ev, out1)} :
            /\ Relevant(r1, out1)
            /\ IF r1.rerun
               THEN \E out2 \in Outcomes :
                        \E r2 \in {ScriptRun(r1.ss, NoEvent, out2)} :
                            /\ Relevant(r2, out2)
                            /\ Becomes(HandledRerun(r1, r2), ev)
               ELSE Becomes(Handled(r1), ev)

\* the first run of a new session
Init ==
    \E h \in {Handled(ScriptRun(EmptySession, NoEvent, "c1"))} :
        /\ current_step = h.ss.current_step
        /\ approved = h.ss.approved
        /\ feedback = h.ss.feedback
        /\ generated_content = h.ss.generated_content
        /\ show_completion_prompt = h.ss.show_completion_prompt
        /\ api_key = h.ss.api_key
        /\ project_prompt = h.ss.project_prompt
        /\ page = h.runs[Len(h.runs)].view
        /\ event = NoEvent
        /\ runs = h.runs

\* the user types into the intake inputs
EditInputs ==
    /\ page = "api_input"
    /\ \E typed_key \in KeyInputs, typed_prompt \in PromptInputs :
           Do(Ev("edit", "", typed_key, typed_prompt))

\* the user clicks "Start SDLC Workflow"
StartWorkflow ==
    /\ page = "api_input"
    /\ Do(Ev("start", "", api_key, project_prompt))

\* the user clicks "Approve" on the step shown
Approve ==
    /\ page = "sdlc"
    /\ Do(Click("approve", current_step, ""))

\* the user clicks "Approve" twice: the second click, on the button of the
\* step the first click approved, arrives after the first is handled
ApproveAgain ==
    /\ page = "sdlc"
    /\ event.type = "approve" /\ runs[1].view = "sdlc"
    /\ Do(Click("approve", event.step, ""))

\* the user clicks "Submit" in "Request Changes" with `text` in the box
SubmitFeedback ==
    /\ page = "sdlc"
    /\ \E typed_text \in Texts : Do(Click("submit", current_step, typed_text))

\* any other interaction with the page of a step or of the completion
\* dialog (a download button, typing into the feedback box): a plain run
Interact ==
    /\ page \in {"sdlc", "completion"}
    /\ Do(Ev("plain", "", "", ""))

\* the user clicks "Start New SDLC"
Restart ==
    /\ page = "completion"
    /\ Do(Ev("restart", "", "", ""))

\* the user clicks "Quit"
Quit ==
    /\ page = "completion"
    /\ Do(Ev("quit", "", "", ""))

Next ==
    \/ EditInputs
    \/ StartWorkflow
    \/ Approve
    \/ ApproveAgain
    \/ SubmitFeedback
    \/ Interact
    \/ Restart
    \/ Quit

Spec == Init /\ [][Next]_vars

----------------------------------------------------------------------------
(* Vocabulary of the properties.                                           *)

StepIds == {WORKFLOW_STEPS[i] : i \in 1..Len(WORKFLOW_STEPS)}
NonIntake == StepIds \ {"api_input"}
IndexOf(id) == CHOOSE i \in 1..Len(WORKFLOW_STEPS) : WORKFLOW_STEPS[i] = id

\* the registry entry after `id`, `id` itself for the last entry
Successor(id) ==
    IF IndexOf(id) = Len(WORKFLOW_STEPS) THEN id ELSE WORKFLOW_STEPS[IndexOf(id) + 1]

IsApproved(d, id) == id \in DOMAIN d /\ d[id] = TRUE
HasFeedback(d, id) == id \in DOMAIN d /\ d[id] # ""
AllApproved == \A id \in NonIntake : IsApproved(approved, id)

\* the last script run of the step just taken
LastRun == runs[Len(runs)]

----------------------------------------------------------------------------
(* C1 *)

\* C1: an approve action on the current (non-intake) step s sets approved[s]
\* to true and moves current_step to exactly the registry entry after s; on
\* the last entry (monitoring) current_step is left unchanged.
C1_ApproveAdvances ==
    [][(event'.type = "approve" /\ event'.step = current_step) =>
          /\ current_step \in NonIntake
          /\ IsApproved(approved', current_step)
          /\ current_step' = Successor(current_step)]_vars

\* an approval of qa_testing has moved the session on to deployment
C1_Witness ==
    /\ event.type = "approve"
    /\ runs[1].view = "sdlc" /\ runs[1].step = "qa_testing"
    /\ IsApproved(approved, "qa_testing")
    /\ current_step = "deployment"

----------------------------------------------------------------------------
(* C2 *)

\* C2: when the content generator fails for a step that has no generated
\* content yet, no content is recorded: the step is still absent from
\* generated_content after the render.
C2_FailedGenerationRecordsNothing ==
    [][(/\ runs'[Len(runs')].called
        /\ runs'[Len(runs')].outcome = "error"
        /\ runs'[Len(runs')].step \notin DOMAIN generated_content)
          => runs'[Len(runs')].step \notin DOMAIN generated_content']_vars

----------------------------------------------------------------------------
(* C3 *)

\* C3: in every reachable state check_workflow_completion returns true if
\* and only if approved[s] is true for every non-intake step s.
C3_CompletionIffAllApproved ==
    check_workflow_completion(Session) <=> AllApproved

\* every step is approved and the check, made in the sidebar, has said so
C3_Witness ==
    /\ AllApproved
    /\ LastRun.exported
    /\ show_completion_prompt

----------------------------------------------------------------------------
(* C4 *)

\* C4: submitting non-empty feedback on the current step s sets feedback[s]
\* to that text and approved[s] to false, leaves current_step equal to s, and
\* the following render of s regenerates its content.
C4_FeedbackRecorded ==
    [][(event'.type = "submit" /\ event'.text # "") =>
          /\ current_step \in DOMAIN feedback'
          /\ feedback'[current_step] = event'.text
          /\ current_step \in DOMAIN approved'
          /\ approved'[current_step] = FALSE
          /\ current_step' = current_step
          /\ Len(runs') = 2
          /\ runs'[2].view = "sdlc" /\ runs'[2].step = current_step
          /\ runs'[2].called]_vars

----------------------------------------------------------------------------
(* C5 *)

\* C5: submitting empty feedback on the current step leaves current_step,
\* approved, feedback and generated_content as they were, in every reachable
\* state (also one where the step holds feedback from an earlier submission).
C5_EmptyFeedbackChangesNothing ==
    [][(event'.type = "submit" /\ event'.text = "") =>
          UNCHANGED <<current_step, approved, feedback, generated_content>>]_vars

----------------------------------------------------------------------------
(* C6 *)

\* the steps that hold content when the second run of a step renders: those
\* of before the step and the one its first run rendered
ContentAtRerun ==
    (DOMAIN generated_content)
        \cup (IF runs'[1].view = "sdlc" THEN {runs'[1].step} ELSE {})

\* C6: a render of a non-intake step s calls the content generator if and
\* only if generated_content[s] is absent or feedback[s] is non-empty (the
\* rerun of a step handles no click, so it renders with the feedback it ends with).
C6_GeneratesIffNeeded ==
    [][/\ runs'[1].view = "sdlc" =>
            (runs'[1].called <=>
                \/ runs'[1].step \notin DOMAIN generated_content
                \/ HasFeedback(feedback, runs'[1].step))
       /\ (Len(runs') = 2 /\ runs'[2].view = "sdlc") =>
            (runs'[2].called <=>
                \/ runs'[2].step \notin ContentAtRerun
                \/ HasFeedback(feedback', runs'[2].step))]_vars

\* a plain run of a step that holds content and feedback has generated again
C6_Witness ==
    /\ event.type = "plain"
    /\ runs[1].view = "sdlc" /\ runs[1].called
    /\ HasFeedback(feedback, runs[1].step)
    /\ "user_stories" \in DOMAIN generated_content
    /\ runs[1].step = "design_docs"

----------------------------------------------------------------------------
(* C7 *)

\* every non-intake step before the current one is approved
ApprovedBeforeCurrent ==
    \A id \in NonIntake : IndexOf(id) < IndexOf(current_step) => IsApproved(approved, id)

\* C7: in every reachable state every non-intake step strictly before
\* current_step is approved; a feedback submission changes the approved entry
\* of no step but the current one and leaves current_step where it is.
C7_NeverAheadOfUnapproved ==
    /\ [](current_step \in StepIds /\ ApprovedBeforeCurrent)
    /\ [][event'.type = "submit" =>
            /\ current_step' = current_step
            /\ \A id \in StepIds \ {current_step} :
                  /\ (id \in DOMAIN approved') = (id \in DOMAIN approved)
                  /\ id \in DOMAIN approved => approved'[id] = approved[id]]_vars

\* feedback has un-approved code_generation, the current step, behind two
\* approved steps
C7_Witness ==
    /\ event.type = "submit" /\ event.text # ""
    /\ current_step = "code_generation"
    /\ "code_generation" \in DOMAIN approved /\ approved["code_generation"] = FALSE
    /\ IsApproved(approved, "user_stories") /\ IsApproved(approved, "design_docs")

----------------------------------------------------------------------------
(* C8 *)

\* C8: approved[s] becomes true only in a step that is an approve click on s
\* taken while s is the current step, shown on the page.
C8_OnlyApproveApproves ==
    [][\A id \in StepIds :
          (~IsApproved(approved, id) /\ IsApproved(approved', id)) =>
              /\ event'.type = "approve" /\ event'.step = id
              /\ page = "sdlc"
              /\ current_step = id]_vars

\* an approve click has turned the false that feedback left for
\* user_stories into true
C8_Witness ==
    /\ event.type = "approve"
    /\ runs[1].step = "user_stories"
    /\ HasFeedback(feedback, "user_stories")
    /\ IsApproved(approved, "user_stories")

----------------------------------------------------------------------------
(* C9 *)

\* C9: in every reachable state current_step is the id of a registry entry.
C9_CurrentStepInRegistry == current_step \in StepIds

\* a restart, after a complete workflow, has come back to the intake step
C9_Witness ==
    /\ event.type = "restart"
    /\ Len(runs) = 2
    /\ current_step = "api_input"

----------------------------------------------------------------------------
(* C10 *)

\* C10: the steps mapping the export produces from a session state has
\* exactly the step ids that are keys of generated_content, each with that
\* step's content, its feedback ("" when none) and its approved flag (false
\* when none).  The sidebar of the first run of a step exports the state the
\* step starts in.
C10_ExportMatchesSession ==
    [][runs'[1].exported =>
          /\ DOMAIN runs'[1].steps = DOMAIN generated_content
          /\ \A id \in DOMAIN generated_content :
                /\ runs'[1].steps[id].content = generated_content[id]
                /\ runs'[1].steps[id].feedback =
                       (IF id \in DOMAIN feedback THEN feedback[id] ELSE "")
                /\ runs'[1].steps[id].approved =
                       (IF id \in DOMAIN approved THEN approved[id] ELSE FALSE)]_vars

\* an export of a partial workflow: an approved step, a step with feedback
\* and no approval, and the steps after them left out
C10_Witness ==
    /\ runs[1].exported
    /\ DOMAIN runs[1].steps = {"user_stories", "design_docs"}
    /\ runs[1].steps["user_stories"].approved = TRUE
    /\ runs[1].steps["user_stories"].feedback = ""
    /\ runs[1].steps["design_docs"].feedback = "f1"
    /\ runs[1].steps["design_docs"].approved = FALSE

----------------------------------------------------------------------------
(* C11 *)

\* C11: the restart action clears all session state except the credential:
\* afterwards, the intake step rendered again, current_step is the intake
\* step, approved, feedback and generated_content are empty, the completion
\* flag is false and api_key still has the value it had before the restart.
C11_RestartKeepsCredential ==
    [][event'.type = "restart" =>
          /\ current_step' = "api_input"
          /\ page' = "api_input"
          /\ approved' = EmptyDict
          /\ feedback' = EmptyDict
          /\ generated_content' = EmptyDict
          /\ show_completion_prompt' = FALSE
          /\ api_key' = api_key]_vars

----------------------------------------------------------------------------
(* C12 *)

\* C12: the start click moves current_step to user_stories if and only if
\* the credential and the description are both non-empty; otherwise
\* current_step stays the intake step and approved, feedback and
\* generated_content are unchanged.
C12_StartNeedsBothInputs ==
    [][event'.type = "start" =>
          /\ current_step = "api_input"
          /\ (current_step' = "user_stories")
                <=> (event'.api_key # "" /\ event'.project_prompt # "")
          /\ (event'.api_key = "" \/ event'.project_prompt = "") =>
                /\ current_step' = "api_input"
                /\ UNCHANGED <<approved, feedback, generated_content>>]_vars

\* a start click with a credential and no description has been turned down
C12_Witness ==
    /\ event.type = "start"
    /\ event.api_key = "k1" /\ event.project_prompt = ""
    /\ api_key = "k1" /\ project_prompt = ""
    /\ current_step = "api_input" /\ page = "api_input"

----------------------------------------------------------------------------
(* C13 *)

\* C13: once an approve click on the current step s has been handled, a
\* second approve click on s right after it (s no longer the current step,
\* or s the last step) changes neither approved nor current_step.
C13_SecondApproveChangesNothing ==
    [][(/\ event.type = "approve" /\ runs[1].view = "sdlc"
        /\ event.step = runs[1].step
        /\ event'.type = "approve" /\ event'.step = event.step)
          => UNCHANGED <<approved, current_step>>]_vars

\* the second click on user_stories' button was handled on the page of
\* design_docs, which has no such button
C13_Witness ==
    /\ event.type = "approve" /\ event.step = "user_stories"
    /\ Len(runs) = 1
    /\ runs[1].view = "sdlc" /\ runs[1].step = "design_docs"
    /\ current_step = "design_docs"
    /\ approved = [id \in {"user_stories"} |-> TRUE]

----------------------------------------------------------------------------
(* C14 *)

\* what download_entire_workflow makes of the session `ss`: the flag is true
\* afterwards iff it was true or every non-intake step is approved, and every
\* other field is as before
ExportEffect(ss, d) ==
    /\ d.ss.show_completion_prompt
          = (ss.show_completion_prompt \/ \A id \in NonIntake : IsApproved(ss.approved, id))
    /\ d.ss = [ss EXCEPT !.show_completion_prompt = d.ss.show_completion_prompt]

\* C14: assembling the export sets show_completion_prompt to true exactly
\* when every non-intake step is approved, never when the workflow is
\* incomplete, and changes no other field of the session; so a run whose
\* sidebar assembled the export ends with the flag set iff it was set or all
\* steps were approved when the run began.
C14_ExportSetsFlagIffComplete ==
    /\ [](ExportEffect(Session, download_entire_workflow(Session)))
    /\ [][(runs'[1].exported /\ event'.type # "restart") =>
              show_completion_prompt' = (show_completion_prompt \/ AllApproved)]_vars

\* a run on the page of monitoring, all steps approved, whose export has set
\* the flag and put the completion dialog in place of the step
C14_Witness ==
    /\ event.type = "plain" /\ Len(runs) = 1
    /\ runs[1].exported /\ runs[1].step = "monitoring"
    /\ runs[1].view = "completion"
    /\ show_completion_prompt /\ AllApproved
    /\ current_step = "monitoring"

----------------------------------------------------------------------------
(* C15 *)

\* the feedback a step holds when run number i of a step begins: the rerun
\* handles no click, so it begins with the feedback the step ends with
FeedbackAtRun(i) == IF i = 1 THEN feedback ELSE feedback'

\* C15: regeneration overwrites only generated_content of the step rendered
\* and clears nothing: feedback submitted on the page of a step is stored and
\* stays non-empty until a restart, every run that renders a step holding
\* feedback calls the generator, what the generator returned last for a step
\* is what the step holds afterwards, and a run that only regenerates leaves
\* every other field and every other step's content as they were.
C15_FeedbackKeepsRegenerating ==
    [][/\ (event'.type = "submit" /\ event'.text # "" /\ runs'[1].view = "sdlc") =>
             /\ HasFeedback(feedback', event'.step)
             /\ Len(runs') = 2 /\ runs'[2].step = event'.step /\ runs'[2].called
       /\ event'.type # "restart" =>
             \A id \in DOMAIN feedback :
                 HasFeedback(feedback, id) => HasFeedback(feedback', id)
       /\ \A i \in 1..Len(runs') :
             /\ (runs'[i].view = "sdlc" /\ HasFeedback(FeedbackAtRun(i), runs'[i].step))
                   => runs'[i].called
             /\ (/\ runs'[i].called
                 /\ i = Len(runs') \/ runs'[Len(runs')].step # runs'[i].step)
                   => generated_content'[runs'[i].step]
                         = generate_with_groq(runs'[i].outcome)
       /\ (event'.type = "plain" /\ runs'[1].called) =>
             /\ UNCHANGED <<current_step, approved, feedback, show_completion_prompt,
                            api_key, project_prompt>>
             /\ DOMAIN generated_content' = DOMAIN generated_content \cup {runs'[1].step}
             /\ \A id \in (DOMAIN generated_content) \ {runs'[1].step} :
                    generated_content'[id] = generated_content[id]]_vars

\* user_stories holds feedback from an earlier submission, and a later run
\* that handled no click has replaced its content by what the generator
\* returned this time
C15_Witness ==
    /\ event.type = "plain" /\ Len(runs) = 1
    /\ runs[1].view = "sdlc" /\ runs[1].step = "user_stories"
    /\ runs[1].called /\ runs[1].outcome = "c2"
    /\ HasFeedback(feedback, "user_stories")
    /\ generated_content = [id \in {"user_stories"} |-> "c2"]
    /\ IsApproved(approved, "user_stories") = FALSE

----------------------------------------------------------------------------
(* C16 *)

\* the text `value` is one of the pieces of the message
Contains(message, value) == \E i \in 1..Len(message) : message[i] = value

\* C16: every non-intake step has a prompt template with the {prompt}
\* replacement field, so the user message of every call of the generator
\* carries the project description.
C16_PromptCarriesDescription ==
    \A i \in 1..Len(runs) :
        runs[i].called =>
            /\ runs[i].step \in DOMAIN PROMPT_TEMPLATES
            /\ Contains(PROMPT_TEMPLATES[runs[i].step], "{prompt}")
            /\ Contains(runs[i].prompt, project_prompt)

----------------------------------------------------------------------------
(* C17 *)

\* C17: whenever show_completion_prompt is true every non-intake step is
\* approved and the completion dialog stands in place of the step, so no
\* approve or feedback button is on the page; a step taken with the flag true
\* before it, or true after it, other than a restart leaves approved,
\* feedback and current_step as they were.
C17_CompletionFreezesApprovals ==
    /\ [](show_completion_prompt => (AllApproved /\ page = "completion"))
    /\ [][((show_completion_prompt \/ show_completion_prompt')
              /\ event'.type # "restart")
             => UNCHANGED <<approved, feedback, current_step>>]_vars

\* a click on Submit with text in the box, made on the page of monitoring
\* after its approval, has met the completion dialog and recorded nothing
C17_Witness ==
    /\ show_completion_prompt /\ page = "completion"
    /\ event.type = "submit" /\ event.text = "f1" /\ event.step = "monitoring"
    /\ feedback = EmptyDict
    /\ AllApproved

----------------------------------------------------------------------------
(* C18 *)

\* C18: the run that handles an approve click on the step s shown does not
\* call the generator, and generated_content[s] when approved[s] is set is
\* the content the step held, and showed, before the click.
C18_ApprovedContentWasShown ==
    [][(/\ event'.type = "approve" /\ event'.step = current_step
        /\ runs'[1].view = "sdlc")
          => /\ ~runs'[1].called
             /\ IsApproved(approved', current_step)
             /\ generated_content'[current_step] = generated_content[current_step]]_vars

----------------------------------------------------------------------------
(* C19 *)

\* C19: the approval of the last step (monitoring) completes the approvals
\* in a run that requests no rerun, so that run ends on the page of the step
\* with the flag still false; and from a state in which every non-intake
\* step is approved the next script run, whatever starts it, sets
\* show_completion_prompt and shows the completion dialog in place of the
\* step (a click on "Start New SDLC" in the dialog resets the flag).
C19_CompletionSignalledOnNextRun ==
    [][/\ (/\ event'.type = "approve" /\ event'.step = "monitoring"
            /\ runs'[1].view = "sdlc" /\ runs'[1].step = "monitoring")
              => /\ Len(runs') = 1
                 /\ AllApproved'
                 /\ ~show_completion_prompt' /\ page' = "sdlc"
       /\ (AllApproved /\ event'.type # "restart")
              => /\ runs'[1].exported /\ runs'[1].view = "completion"
                 /\ show_completion_prompt' /\ page' = "completion"]_vars

\* the run after the approval of monitoring, started by a second click on
\* its Approve button, has shown the completion dialog
C19_Witness ==
    /\ event.type = "approve" /\ event.step = "monitoring"
    /\ Len(runs) = 1 /\ runs[1].view = "completion"
    /\ show_completion_prompt /\ page = "completion"

----------------------------------------------------------------------------
(* C20 *)

\* the non-intake steps at or before the current step in the registry
UpToCurrent == {id \in NonIntake : IndexOf(id) <= IndexOf(current_step)}

\* C20: approved, feedback and generated_content have entries only for
\* non-intake steps at or before current_step in registry order, and the
\* sidebar's count of approved steps lies between 0 and the number of
\* non-intake steps.
C20_EntriesOnlyUpToCurrent ==
    /\ DOMAIN approved \subseteq UpToCurrent
    /\ DOMAIN feedback \subseteq UpToCurrent
    /\ DOMAIN generated_content \subseteq UpToCurrent
    /\ approved_count(Session) \in 0..total_steps
    /\ approved_count(Session) <= Cardinality(UpToCurrent)

\* on code_review, feedback submitted: the three steps before it are
\* approved, it is not, and no later step has an entry
C20_Witness ==
    /\ current_step = "code_review"
    /\ HasFeedback(feedback, "code_review")
    /\ DOMAIN approved = UpToCurrent
    /\ DOMAIN generated_content = UpToCurrent
    /\ {id \in DOMAIN approved : approved[id]} = UpToCurrent \ {"code_review"}

====
